---- MODULE Spec2Model ----
(* Model of the fan-out content pipeline: the Flask front end (src/app.py)  *)
(* and the orchestration in src/fanout_ai.py.  One request is followed from *)
(* its arrival at a handler, through run_tool and every remote call it      *)
(* makes, to the response.  Remote calls are nondeterministic: each may     *)
(* raise, and a structured call may return no parsed object.                *)
EXTENDS Integers, Sequences, FiniteSets, TLC

\* ---------------------------------------------------------------- bounds
MaxLen == 1          \* longest keyword / content string
MaxQueries == 2      \* longest sub_queries list the planning call returns
MaxBlocks == 6       \* largest block count of a model candidate

\* ------------------------------------------------------- values and text
Chars == {" ", "a"}
Strings == UNION {[1..k -> Chars] : k \in 0..MaxLen}
Queries == {"q1", "q2"}
QuerySeqs == UNION {[1..k -> Queries] : k \in 0..MaxQueries}

\* Python None / a present value
None == [some |-> FALSE, v |-> <<>>]
Some(s) == [some |-> TRUE, v |-> s]
OptStrings == {None} \cup {Some(s) : s \in Strings}

\* truthiness of an optional string: None and "" are falsy
Truthy(o) == o.some /\ o.v # <<>>

\* Python `a or b`
PyOr(a, b) == IF Truthy(a) THEN a ELSE b

RECURSIVE lstrip(_)
lstrip(s) == IF s = <<>> THEN s
             ELSE IF Head(s) = " " THEN lstrip(Tail(s)) ELSE s

RECURSIVE rstrip(_)
rstrip(s) == IF s = <<>> THEN s
             ELSE IF s[Len(s)] = " " THEN rstrip(SubSeq(s, 1, Len(s) - 1)) ELSE s

\* str.strip()
strip(s) == rstrip(lstrip(s))

\* ------------------------------------------------------------ records
NoOut == [tag |-> "none", msg |-> "", blocks |-> 0]
ResultOut(n) == [tag |-> "result", msg |-> "", blocks |-> n]
ErrorOut(m) == [tag |-> "error", msg |-> m, blocks |-> 0]
RaiseOut == [tag |-> "raise", msg |-> "AttributeError", blocks |-> 0]

\* outcome of a structured call: it raised, it returned no parsed object,
\* or it returned a parsed object
Unset == [tag |-> "unset", sub_queries |-> <<>>, blocks |-> 0]
Raised == [tag |-> "exc", sub_queries |-> <<>>, blocks |-> 0]
NoParsed == [tag |-> "None", sub_queries |-> <<>>, blocks |-> 0]
ParsedPlan(qs) == [tag |-> "parsed", sub_queries |-> qs, blocks |-> 0]
ParsedResult(n) == [tag |-> "parsed", sub_queries |-> <<>>, blocks |-> n]

PlanOutcomes == {Raised, NoParsed} \cup {ParsedPlan(qs) : qs \in QuerySeqs}
ResultOutcomes == {Raised, NoParsed} \cup {ParsedResult(n) : n \in 0..MaxBlocks}

NoResponse == [kind |-> "none", body |-> NoOut]

\* one remote call: which call, for which query, and whether it came back
Call(f, q, ok) == [fn |-> f, q |-> q, ok |-> ok]

VARIABLES pc, entry, keyword, content_text, use_real_search, api_key,
          plan, provider, i, results, geo_result, final_result,
          out, response, calls

vars == <<pc, entry, keyword, content_text, use_real_search, api_key,
          plan, provider, i, results, geo_result, final_result,
          out, response, calls>>

EmptyResults == [x \in {} |-> ""]

Init ==
    /\ pc = "idle"
    /\ entry = "none"
    /\ keyword = <<>>
    /\ content_text = <<>>
    /\ use_real_search = FALSE
    /\ api_key = None
    /\ plan = Unset
    /\ provider = "mock"
    /\ i = 1
    /\ results = EmptyResults
    /\ geo_result = Unset
    /\ final_result = Unset
    /\ out = NoOut
    /\ response = NoResponse
    /\ calls = <<>>

\* a handler starts on a request with nothing carried over: every request
\* owns its plan, its retrieval mapping and its result
Fresh ==
    /\ pc = "idle"
    /\ plan' = Unset
    /\ provider' = "mock"
    /\ i' = 1
    /\ results' = EmptyResults
    /\ geo_result' = Unset
    /\ final_result' = Unset
    /\ out' = NoOut
    /\ response' = NoResponse
    /\ calls' = <<>>
    /\ UNCHANGED api_key

\* ------------------------------------------------------- front end
\* src/app.py fanout(): read the JSON body and hand over to run_tool
fanout(data) ==
    /\ Fresh
    /\ entry' = "api"
    /\ content_text' = PyOr(PyOr(data.content_text, data.content), Some(<<>>)).v
    /\ keyword' = PyOr(data.keyword, Some(<<>>)).v
    /\ use_real_search' = FALSE
    /\ pc' = "run_tool"

\* request.form.get(name, ""): the default only when the field is missing
FormGet(o) == IF o.some THEN o.v ELSE <<>>

\* src/app.py index(): a GET renders the empty page, a POST runs the tool
index(method, form) ==
    /\ pc = "idle"
    /\ entry' = IF method = "POST" THEN "form" ELSE "form_get"
    /\ use_real_search' = FALSE
    /\ plan' = Unset
    /\ provider' = "mock"
    /\ i' = 1
    /\ results' = EmptyResults
    /\ geo_result' = Unset
    /\ final_result' = Unset
    /\ out' = NoOut
    /\ calls' = <<>>
    /\ UNCHANGED api_key
    /\ IF method = "POST"
       THEN /\ content_text' = FormGet(form.content_text)
            /\ keyword' = FormGet(form.keyword)
            /\ response' = NoResponse
            /\ pc' = "run_tool"
       ELSE /\ content_text' = <<>>
            /\ keyword' = <<>>
            /\ response' = [kind |-> "page", body |-> NoOut]
            /\ pc' = "responded"

\* run_fan_out_workflow called as a public API with either search flag
call_workflow(kw, real) ==
    /\ Fresh
    /\ entry' = "workflow"
    /\ keyword' = kw
    /\ content_text' = <<>>
    /\ use_real_search' = real
    /\ pc' = "plan"

\* ------------------------------------------------------- responses
\* what the caller of run_tool / run_fan_out_workflow makes of its outcome:
\* fanout() passes the dict to jsonify and catches nothing; index() wraps
\* the call in try/except and renders the page either way
Respond(e, o) ==
    IF e = "api"
    THEN (IF o.tag = "raise" THEN [kind |-> "unhandled", body |-> o]
          ELSE [kind |-> "json", body |-> o])
    ELSE IF e = "form"
    THEN (IF o.tag = "raise"
          THEN [kind |-> "page", body |-> ErrorOut("An error occurred")]
          ELSE [kind |-> "page", body |-> o])
    ELSE (IF o.tag = "raise" THEN [kind |-> "raised", body |-> o]
          ELSE [kind |-> "returned", body |-> o])

\* the request ends with outcome o
Finish(o) ==
    /\ out' = o
    /\ response' = Respond(entry, o)
    /\ pc' = "responded"

\* the request goes on at label l
Goto(l) ==
    /\ pc' = l
    /\ UNCHANGED <<out, response>>

\* ------------------------------------------------------- run_tool
\* `if not keyword`
KeywordMissing(kw) == kw = <<>>

\* the content test without the strip
HasContentNoStrip(ct) == ct # <<>>

\* `if content_text.strip()`
HasContent(ct) == strip(ct) # <<>>

\* the direct result is never returned: the early return is missing
ReturnDirectNever(geo) == FALSE

\* `if geo_result is not None`
ReturnDirect(geo) == geo.tag = "parsed"

run_tool ==
    /\ pc = "run_tool"
    /\ IF KeywordMissing(keyword)
       THEN Finish(ErrorOut("Keyword is required."))
       ELSE Goto(IF HasContent(content_text) THEN "direct" ELSE "plan")
    /\ use_real_search' = FALSE
    /\ UNCHANGED <<entry, keyword, content_text, api_key, plan, provider, i,
                   results, geo_result, final_result, calls>>

\* generate_geo_content returns None when the call raises
GeoReturn(o) == IF o.tag = "exc" THEN NoParsed ELSE o

\* the direct single-shot call and run_tool's use of its result
generate_geo_content ==
    /\ pc = "direct"
    /\ \E o \in ResultOutcomes :
         /\ calls' = Append(calls, Call("direct", "-", o.tag # "exc"))
         /\ geo_result' = GeoReturn(o)
         /\ IF ReturnDirect(GeoReturn(o))
            THEN Finish(ResultOut(GeoReturn(o).blocks))
            ELSE Goto("plan")
    /\ UNCHANGED <<entry, keyword, content_text, use_real_search, api_key,
                   plan, provider, i, results, final_result>>

\* ------------------------------------------------------- workflow
\* stage 1: the planning call inside the first try block
step_1_plan_queries ==
    /\ pc = "plan"
    /\ \E o \in PlanOutcomes :
         /\ calls' = Append(calls, Call("plan", "-", o.tag # "exc"))
         /\ plan' = o
         /\ IF o.tag = "exc"
            THEN Finish(ErrorOut("Planning failed"))
            ELSE Goto("search")
    /\ UNCHANGED <<entry, keyword, content_text, use_real_search, api_key,
                   provider, i, results, geo_result, final_result>>

\* the strategy test without the credential
UseSerperProviderOnly(prov, key) == prov = "serper"

\* `self.provider == "serper" and self.api_key`
UseSerper(prov, key) == prov = "serper" /\ Truthy(key)

\* `return results` inside the loop body: the loop ends after one query
LoopDoneEarly(k, qs) == k > Len(qs) \/ k > 1

\* the for loop of search_multiple is over once every query was visited
LoopDone(k, qs) == k > Len(qs)

\* `results = {}` inside the loop body: only the last entry survives
StoreResultReset(r, q, text) == [x \in {q} |-> text]

\* results[q] = text
StoreResult(r, q, text) ==
    [x \in (DOMAIN r) \cup {q} |-> IF x = q THEN text ELSE r[x]]

\* _search_mock_smart without its except clause: the failure propagates
search_mock_raises(o) ==
    IF o = "exc" THEN "RAISE" ELSE "mock snippet"

\* _search_mock_smart: the except clause turns a failure into a placeholder
search_mock_smart(o) ==
    IF o = "exc" THEN "Error generating mock content." ELSE "mock snippet"

\* _search_serper: the except clause turns a failure into a placeholder
search_serper(o) ==
    IF o = "exc" THEN "No results found due to error." ELSE "serper snippets"

MockOutcomes == {"ok", "exc"}
SerperOutcomes == {"ok", "exc"}

\* os.getenv("SERPER_API_KEY"): unset, set to "", or set to a key
EnvKeys == {None, Some(<<>>), Some(<<"a">>)}

\* stage 2 begins: the provider is chosen, the tool built (it reads the
\* credential from the environment), and plan.sub_queries evaluated (an
\* AttributeError when plan is None)
SearchTool_init ==
    /\ pc = "search"
    /\ provider' = IF use_real_search THEN "serper" ELSE "mock"
    /\ api_key' \in EnvKeys
    /\ i' = 1
    /\ results' = EmptyResults
    /\ IF plan.tag = "None"
       THEN Finish(ErrorOut("Search failed"))
       ELSE Goto(IF LoopDone(1, plan.sub_queries) THEN "synth" ELSE "loop")
    /\ UNCHANGED <<entry, keyword, content_text, use_real_search,
                   plan, geo_result, final_result, calls>>

\* one iteration of the loop of search_multiple
search_multiple ==
    /\ pc = "loop"
    /\ LET q == plan.sub_queries[i]
           serper == UseSerper(provider, api_key)
       IN \E o \in (IF serper THEN SerperOutcomes ELSE MockOutcomes) :
            LET text == IF serper THEN search_serper(o)
                        ELSE search_mock_smart(o)
            IN /\ calls' = Append(calls, Call(IF serper THEN "serper" ELSE "mock", q, o # "exc"))
               /\ IF text = "RAISE"
                  THEN /\ Finish(ErrorOut("Search failed"))
                       /\ UNCHANGED <<results, i>>
                  ELSE /\ results' = StoreResult(results, q, text)
                       /\ i' = i + 1
                       /\ Goto(IF LoopDone(i + 1, plan.sub_queries)
                               THEN "synth" ELSE "loop")
    /\ UNCHANGED <<entry, keyword, content_text, use_real_search, api_key,
                   plan, provider, geo_result, final_result>>

\* stage 3: the synthesis call inside the third try block, then
\* final_result.model_dump() outside any try block
step_3_synthesize ==
    /\ pc = "synth"
    /\ \E o \in ResultOutcomes :
         /\ calls' = Append(calls, Call("synth", "-", o.tag # "exc"))
         /\ final_result' = o
         /\ Finish(IF o.tag = "exc" THEN ErrorOut("Synthesis failed")
                   ELSE IF o.tag = "None" THEN RaiseOut
                   ELSE ResultOut(o.blocks))
    /\ UNCHANGED <<entry, keyword, content_text, use_real_search, api_key,
                   plan, provider, i, results, geo_result>>

JsonBodies == [content_text : OptStrings, content : OptStrings, keyword : OptStrings]
Forms == [content_text : OptStrings, keyword : OptStrings]

Next ==
    \/ \E data \in JsonBodies : fanout(data)
    \/ \E method \in {"GET", "POST"}, form \in Forms : index(method, form)
    \/ \E kw \in Strings, real \in BOOLEAN : call_workflow(kw, real)
    \/ run_tool
    \/ generate_geo_content
    \/ step_1_plan_queries
    \/ SearchTool_init
    \/ search_multiple
    \/ step_3_synthesize

Spec == Init /\ [][Next]_vars

TypeOK ==
    /\ pc \in {"idle", "run_tool", "direct", "plan", "search", "loop",
               "synth", "responded"}
    /\ entry \in {"none", "api", "form", "form_get", "workflow"}
    /\ keyword \in Strings
    /\ content_text \in Strings
    /\ i \in 1..(MaxQueries + 1)
    /\ DOMAIN results \subseteq Queries

\* ------------------------------------------------------- vocabulary
\* a string with nothing but whitespace in it (the empty string included)
IsBlank(s) == \A j \in DOMAIN s : s[j] = " "

CallsOf(f) == {j \in DOMAIN calls : calls[j].fn = f}
Lookups == CallsOf("mock") \cup CallsOf("serper")
Range(f) == {f[x] : x \in DOMAIN f}
Placeholders == {"Error generating mock content.", "No results found due to error."}

\* the request came through run_tool (either front-end handler)
ViaTool == entry \in {"api", "form"}
Returned == pc = "responded"

\* the k-th lookup of the request
RECURSIVE NthLookup(_, _)
NthLookup(k, from) ==
    IF from > Len(calls) THEN 0
    ELSE IF from \in Lookups
         THEN (IF k = 1 THEN from ELSE NthLookup(k - 1, from + 1))
         ELSE NthLookup(k, from + 1)

\* the last lookup made for query q
LastLookup(q) ==
    CHOOSE j \in Lookups : calls[j].q = q /\ \A k \in Lookups : calls[k].q = q => k <= j

\* ------------------------------------------------------- claims

\* C1: a request whose keyword is blank gets the InputError response
\* {"error": "Keyword is required."} and makes no remote call at all.
C1_BlankKeywordNoRemoteCall ==
    (ViaTool /\ IsBlank(keyword)) =>
        /\ calls = <<>>
        /\ pc \in {"run_tool", "responded"}
        /\ Returned => out = ErrorOut("Keyword is required.")

\* C2: a result handed back as a success has 3 to 5 blocks: a candidate
\* outside that range is never returned as {"result": ...}.
C2_ResultValidated ==
    out.tag = "result" => out.blocks \in 3..5

\* C3: Plan, Retrieve, Synthesize run in that order: every lookup follows a
\* planning call that returned a plan, the synthesis call follows the lookup
\* of every sub-query, and a workflow result follows all three.
C3_StageOrder ==
    /\ \A j \in Lookups :
         /\ plan.tag = "parsed"
         /\ \E k \in CallsOf("plan") : k < j /\ calls[k].ok
    /\ \A j \in CallsOf("synth") :
         /\ plan.tag = "parsed"
         /\ Cardinality(Lookups) = Len(plan.sub_queries)
         /\ \A k \in Lookups \cup CallsOf("plan") : k < j
    /\ (out.tag = "result" /\ geo_result.tag # "parsed") =>
         /\ plan.tag = "parsed"
         /\ final_result.tag = "parsed"
         /\ Cardinality(CallsOf("plan")) = 1
         /\ Cardinality(Lookups) = Len(plan.sub_queries)
         /\ Cardinality(CallsOf("synth")) = 1
         /\ calls[Len(calls)].fn = "synth"

C3_Witness ==
    /\ pc = "responded"
    /\ out.tag = "result"
    /\ geo_result.tag # "parsed"
    /\ Len(plan.sub_queries) = MaxQueries
    /\ Cardinality(Lookups) = MaxQueries

\* C4: a failed stage ends the request in a failure tagged with that stage
\* and no later stage makes a remote call; a planning call that yields no
\* usable plan is a planning failure.
C4_FailureTaggedByStage ==
    /\ plan.tag \in {"exc", "None"} =>
         /\ Lookups = {}
         /\ CallsOf("synth") = {}
         /\ Returned => out = ErrorOut("Planning failed")
    /\ (final_result.tag \in {"exc", "None"} /\ Returned) =>
         out = ErrorOut("Synthesis failed")

\* C5 as stated: with content that has text and a non-blank keyword, Plan
\* and Retrieve never run, one direct call is made, and its outcome is the
\* outcome of the request.
C5_DirectOnly ==
    (ViaTool /\ ~IsBlank(content_text) /\ ~IsBlank(keyword)) =>
        /\ CallsOf("plan") = {}
        /\ Lookups = {}
        /\ Cardinality(CallsOf("direct")) <= 1
        /\ Returned =>
             /\ Cardinality(CallsOf("direct")) = 1
             /\ geo_result.tag = "parsed" => out = ResultOut(geo_result.blocks)
             /\ geo_result.tag = "None" => out.tag # "result"

\* C5 amended: with content that has text and a non-blank keyword, exactly
\* one direct call is made and it is the first remote call; when it returns
\* a parsed result, Plan, Retrieve and Synthesize never run and that result
\* is the outcome; when it fails, the request falls back to the workflow,
\* which starts with the planning call.
C5_DirectFirstThenFallback ==
    (ViaTool /\ ~IsBlank(content_text) /\ ~IsBlank(keyword)) =>
        /\ Cardinality(CallsOf("direct")) <= 1
        /\ calls # <<>> => calls[1].fn = "direct"
        /\ pc \notin {"idle", "run_tool", "direct"} =>
             Cardinality(CallsOf("direct")) = 1
        /\ geo_result.tag = "parsed" =>
             /\ CallsOf("plan") \cup Lookups \cup CallsOf("synth") = {}
             /\ pc = "responded"
             /\ out = ResultOut(geo_result.blocks)
        /\ geo_result.tag = "None" =>
             /\ pc = "plan" \/ CallsOf("plan") = {2}
             /\ out.tag # "result" \/ final_result.tag = "parsed"

C5_Witness ==
    /\ entry = "api"
    /\ ~IsBlank(content_text)
    /\ ~IsBlank(keyword)
    /\ pc = "responded"
    /\ geo_result.tag = "None"
    /\ out.tag = "result"

\* C6: with a non-blank keyword and empty or whitespace-only content, the
\* request runs the plan -> retrieve -> synthesize path and the direct
\* single-shot call is never made.
C6_EmptyContentUsesWorkflow ==
    (ViaTool /\ ~IsBlank(keyword) /\ IsBlank(content_text)) =>
        /\ CallsOf("direct") = {}
        /\ pc # "direct"
        /\ geo_result = Unset
        /\ calls # <<>> => calls[1].fn = "plan"
        /\ pc \notin {"idle", "run_tool", "plan"} => CallsOf("plan") = {1}

C6_Witness ==
    /\ entry = "form"
    /\ keyword = <<"a">>
    /\ content_text = <<" ">>
    /\ pc = "responded"
    /\ out.tag = "result"

\* C7: run_tool always returns a dict with "result" or "error", and both
\* handlers answer instead of raising.
C7_NoUnhandledFault ==
    (ViaTool /\ Returned) =>
        /\ out.tag \in {"result", "error"}
        /\ response.kind \in {"json", "page"}

\* C8: a lookup that fails leaves a placeholder for its query, the other
\* sub-queries are still looked up, and the pipeline goes on to Synthesize
\* instead of ending in a search failure.
C8_LookupFailureDegrades ==
    \A j \in Lookups : ~calls[j].ok =>
        /\ out # ErrorOut("Search failed")
        /\ pc \in {"loop", "synth", "responded"}
        /\ calls[j].q \in DOMAIN results
        /\ j = LastLookup(calls[j].q) => results[calls[j].q] \in Placeholders
        /\ pc # "loop" => Cardinality(Lookups) = Len(plan.sub_queries)
        /\ Returned => CallsOf("synth") # {}

C8_Witness ==
    /\ pc = "responded"
    /\ Len(plan.sub_queries) = MaxQueries
    /\ Cardinality(Lookups) = MaxQueries
    /\ ~calls[NthLookup(1, 1)].ok
    /\ calls[NthLookup(MaxQueries, 1)].ok
    /\ CallsOf("synth") # {}

\* C9 as stated: search_multiple looks every query up and returns a mapping
\* with as many entries as input queries, each input query being a key.
C9_OneEntryPerInputQuery ==
    pc = "synth" =>
        /\ Cardinality(Lookups) = Len(plan.sub_queries)
        /\ Cardinality(DOMAIN results) = Len(plan.sub_queries)
        /\ \A q \in Range(plan.sub_queries) : q \in DOMAIN results

\* C9 amended: search_multiple makes one lookup per element of its input,
\* in order, repeated queries included; the keys of the returned mapping
\* are exactly the distinct input queries, and a repeated query keeps the
\* text of its last lookup.
C9_OneEntryPerDistinctQuery ==
    pc = "synth" =>
        /\ Cardinality(Lookups) = Len(plan.sub_queries)
        /\ \A k \in 1..Len(plan.sub_queries) :
             calls[NthLookup(k, 1)].q = plan.sub_queries[k]
        /\ DOMAIN results = Range(plan.sub_queries)
        /\ Cardinality(DOMAIN results) = Cardinality(Range(plan.sub_queries))
        /\ \A q \in DOMAIN results :
             (results[q] \in Placeholders) <=> ~calls[LastLookup(q)].ok

C9_Witness ==
    /\ pc = "synth"
    /\ plan.sub_queries = <<"q1", "q1">>
    /\ results["q1"] \in Placeholders
    /\ calls[NthLookup(1, 1)].ok

\* C10: without the search credential every lookup is synthetic and the
\* real backend is never called, even when the tool was built for it.
C10_NoCredentialForcesMock ==
    (~api_key.some \/ api_key.v = <<>>) =>
        /\ CallsOf("serper") = {}
        /\ \A j \in Lookups : calls[j].fn = "mock"

C10_Witness ==
    /\ api_key = None
    /\ provider = "serper"
    /\ pc = "synth"
    /\ Len(plan.sub_queries) = MaxQueries
    /\ Cardinality(Lookups) = MaxQueries

====
